---- MODULE Spec2Model ----
(***************************************************************************)
(* Model resolution for custom endpoints (loadConfigModels) and the        *)
(* cache-aside wrapper around it (getModelsConfig, loadModels,             *)
(* modelController).                                                       *)
(*                                                                         *)
(* JavaScript values are represented as follows.                           *)
(*   string            a TLA+ string; concatenation is \o                  *)
(*   object as a map   a function whose domain is a set of strings         *)
(*   array             a sequence                                          *)
(*   a model entry     [obj, name]: obj = FALSE is the string name,        *)
(*                     obj = TRUE is the object {name: name}               *)
(*   an optional array [present, list]                                     *)
(***************************************************************************)
EXTENDS Naturals, Sequences, FiniteSets, TLC

\* ------------------------------------------------------------------ bounds
\* Longest list of custom endpoint configurations.
MaxEndpoints == 2
\* Calls each caller may make, one after the other.
MaxCalls == 2
\* The calls of the hook's callbacks in one behaviour.
MaxUpdates == 3

\* ------------------------------------------------------------------ values
EmptyMap == [k \in {} |-> <<>>]

Str(s) == [obj |-> FALSE, name |-> s]
Obj(s) == [obj |-> TRUE, name |-> s]

NoList == [present |-> FALSE, list |-> <<>>]
List(l) == [present |-> TRUE, list |-> l]

Range(s) == {s[i] : i \in 1..Len(s)}

\* {...a, ...b} and Object.assign(a, b): the entries of b win.
Spread(a, b) == b @@ a

\* --------------------------------------------------- external collaborators
\* EModelEndpoint, CacheKeys (librechat-data-provider)
azureOpenAI == "azureOpenAI"
azureAssistants == "azureAssistants"
MODELS_CONFIG == "modelsConfig"

\* The process environment the indirection markers resolve against.
ProcessEnv == ("${KEY}" :> "K")

\* extractEnvVariable: a marker of a defined variable resolves to its value,
\* any other value to itself.
extractEnvVariable(value) ==
    IF value \in DOMAIN ProcessEnv THEN ProcessEnv[value] ELSE value

isUserProvided(value) == value = "user_provided"

normalizeEndpointName(name) == IF name = "Ollama" THEN "ollama" ELSE name

\* What fetchModels can settle with: a string[] or nothing (data of kind
\* "null"), or a rejection.
Fulfilled(data) == [state |-> "fulfilled", data |-> data]
ArrayData(l) == [kind |-> "array", models |-> List(l), modelDetails |-> EmptyMap]
NullData == [kind |-> "null", models |-> NoList, modelDetails |-> EmptyMap]
ObjectData(l, d) == [kind |-> "object", models |-> l, modelDetails |-> d]
Pending == [state |-> "pending", data |-> NullData]
Rejected == [state |-> "rejected", data |-> NullData]

fetchModelsOutcomes ==
    { Fulfilled(ArrayData(<<>>)),
      Fulfilled(ArrayData(<<Str("m1"), Str("m2")>>)),
      Fulfilled(NullData),
      Rejected }

\* What fetchModelsWithDetails can settle with: {models, modelDetails},
\* nothing, or a rejection.
fetchModelsWithDetailsOutcomes ==
    { Fulfilled(ObjectData(List(<<>>), EmptyMap)),
      Fulfilled(ObjectData(List(<<Str("m1"), Str("m2")>>), ("m1" :> "p1"))),
      Fulfilled(ObjectData(List(<<Str("m1"), Str("shared")>>),
                           ("m1" :> "p1") @@ ("shared" :> "s1"))),
      Fulfilled(ObjectData(List(<<Str("m2"), Str("shared")>>),
                           ("m2" :> "p2") @@ ("shared" :> "s2"))),
      Fulfilled(ObjectData(NoList, ("m3" :> "p3"))),
      Fulfilled(NullData),
      Rejected }

fetchFnOutcomes(includeDetails) ==
    IF includeDetails THEN fetchModelsWithDetailsOutcomes ELSE fetchModelsOutcomes

\* What loadDefaultModels returns for the process configuration.
DefaultModelsChoices ==
    { ("openAI" :> <<Str("gpt")>>),
      ("openAI" :> <<Str("gpt")>>) @@ ("A" :> <<Str("dA")>>)
          @@ (azureOpenAI :> <<Str("az-env")>>) }

\* ------------------------------------------------------- application config
Endpoint(name, baseURL, apiKey, fetch, default) ==
    [name |-> name, baseURL |-> baseURL, apiKey |-> apiKey,
     hasModels |-> TRUE, fetch |-> fetch, default |-> default]

\* The names are unique after normalization, as the data model requires; a list
\* may still name one endpoint twice.
EndpointPool ==
    { Endpoint("A", "https://x", "K", TRUE, List(<<Str("d1")>>)),
      Endpoint("B", "https://x", "${KEY}", TRUE, List(<<Obj("d2")>>)),
      Endpoint("C", "https://x__", "K", TRUE, NoList),
      Endpoint("D", "https://x", "__K", TRUE, List(<<Str("d3")>>)),
      Endpoint("U", "https://x", "user_provided", TRUE, List(<<Obj("d2"), Str("d1")>>)),
      Endpoint("V", "user_provided", "K", TRUE, NoList),
      Endpoint("Ollama", "https://y", "K", FALSE, List(<<Obj("d2"), Str("d1")>>)),
      Endpoint("", "https://y", "K", TRUE, NoList) }

NoAzure == [present |-> FALSE, modelNames |-> NoList, assistants |-> FALSE,
            assistantModels |-> NoList]

AzureChoices ==
    { NoAzure,
      [present |-> TRUE, modelNames |-> List(<<Str("az-gpt")>>),
       assistants |-> TRUE, assistantModels |-> List(<<Str("az-asst")>>)] }

SeqsUpTo(S, n) == UNION {[1..k -> S] : k \in 0..n}

NoAppConfig == [present |-> FALSE, azure |-> NoAzure, customIsArray |-> FALSE,
                custom |-> <<>>]

AppConfig(azure, isArray, custom) ==
    [present |-> TRUE, azure |-> azure, customIsArray |-> isArray, custom |-> custom]

AppConfigs ==
    {NoAppConfig}
    \cup {AppConfig(az, FALSE, <<>>) : az \in AzureChoices}
    \cup {AppConfig(az, TRUE, c) : az \in AzureChoices,
                                    c \in SeqsUpTo(EndpointPool, MaxEndpoints)}

\* ------------------------------------------------- loadConfigModels, pure parts
\* Mutant: an endpoint without a name passes the filter.
EligibleIgnoringName(endpoint) ==
    /\ endpoint.baseURL # ""
    /\ endpoint.apiKey # ""
    /\ endpoint.hasModels
    /\ (endpoint.fetch \/ endpoint.default.present)

\* The filter of lines 42-49.
Eligible(endpoint) ==
    /\ endpoint.baseURL # ""
    /\ endpoint.apiKey # ""
    /\ endpoint.name # ""
    /\ endpoint.hasModels
    /\ (endpoint.fetch \/ endpoint.default.present)

customEndpoints(appConfig) == SelectSeq(appConfig.custom, Eligible)

uniqueKey(BASE_URL, API_KEY) == BASE_URL \o "__" \o API_KEY

EndpointKey(endpoint) ==
    uniqueKey(extractEnvVariable(endpoint.baseURL), extractEnvVariable(endpoint.apiKey))

\* Mutant: the user-provided placeholders are not looked at.
RequiresFetchIgnoringUser(endpoint) == endpoint.fetch

\* The condition of line 77.
RequiresFetch(endpoint) ==
    /\ endpoint.fetch
    /\ ~isUserProvided(extractEnvVariable(endpoint.apiKey))
    /\ ~isUserProvided(extractEnvVariable(endpoint.baseURL))

\* models.default.map(model => typeof model === 'string' ? model : model.name)
MapNames(list) == [i \in 1..Len(list) |-> Str(list[i].name)]

\* Lines 27-36: the Azure entries.
AzureModels(azure) ==
    LET withNames == IF azure.present /\ azure.modelNames.present
                     THEN (azureOpenAI :> azure.modelNames.list)
                     ELSE EmptyMap
    IN  IF azure.present /\ azure.assistants /\ azure.assistantModels.present
        THEN Spread(withNames, (azureAssistants :> azure.assistantModels.list))
        ELSE withNames

\* Mutant: fetchFn is invoked for every fetch-requiring endpoint.
InvokesFetchAlways(keys, key) == TRUE

\* fetchPromisesMap[uniqueKey] || fetchFn(...): fetchFn is invoked only when no
\* promise is stored under the key.
InvokesFetch(keys, key) == key \notin Range(keys)

IndexOf(keys, key) == CHOOSE i \in 1..Len(keys) : keys[i] = key

\* The locals of one loadConfigModels call. keys is Object.keys(fetchPromisesMap),
\* promises its values in the same order; fetchLog lists the invocations of fetchFn
\* and settled the positions of the promises in the order they settled.
InitLocals(appConfig) ==
    [modelsConfig |-> AzureModels(appConfig.azure),
     allModelDetails |-> EmptyMap,
     keys |-> <<>>,
     promises |-> <<>>,
     uniqueKeyToEndpointsMap |-> EmptyMap,
     endpointsMap |-> EmptyMap,
     fetchLog |-> <<>>,
     settled |-> <<>>,
     i |-> 1]

\* Mutant: the group is replaced by the name instead of extended with it.
PushNameOverwrite(group, name) == <<name>>

\* Lines 91-92: uniqueKeyToEndpointsMap[uniqueKey].push(name)
PushName(group, name) == Append(group, name)

\* One iteration of the loop of lines 64-101.
LoopBody(lc, endpoint) ==
    LET name == normalizeEndpointName(endpoint.name)
        API_KEY == extractEnvVariable(endpoint.apiKey)
        BASE_URL == extractEnvVariable(endpoint.baseURL)
        key == uniqueKey(BASE_URL, API_KEY)
        base == [lc EXCEPT !.endpointsMap = Spread(@, (name :> endpoint)),
                           !.modelsConfig = Spread(@, (name :> <<>>)),
                           !.i = @ + 1]
        group == IF key \in DOMAIN lc.uniqueKeyToEndpointsMap
                 THEN lc.uniqueKeyToEndpointsMap[key] ELSE <<>>
    IN  IF RequiresFetch(endpoint)
        THEN [base EXCEPT
                !.keys = IF key \in Range(@) THEN @ ELSE Append(@, key),
                !.promises = IF key \in Range(lc.keys)
                             THEN IF InvokesFetch(lc.keys, key)
                                  THEN [@ EXCEPT ![IndexOf(lc.keys, key)] = Pending]
                                  ELSE @
                             ELSE Append(@, Pending),
                !.fetchLog = IF InvokesFetch(lc.keys, key)
                             THEN Append(@, [name |-> name, apiKey |-> API_KEY,
                                             baseURL |-> BASE_URL])
                             ELSE @,
                !.uniqueKeyToEndpointsMap = Spread(@, (key :> PushName(group, name)))]
        ELSE IF endpoint.default.present
             THEN [base EXCEPT !.modelsConfig =
                                  Spread(@, (name :> MapNames(endpoint.default.list)))]
             ELSE base

\* endpoint.models.default ?? []
DefaultOrEmpty(endpoint) ==
    IF endpoint.default.present THEN endpoint.default.list ELSE <<>>

\* Mutant: an empty fetched list is kept, with no fallback to the default list.
MergeNameNoFallback(lc, name, data, includeDetails) ==
    IF includeDetails /\ data.kind = "object"
    THEN [lc EXCEPT !.modelsConfig = Spread(@, (name :> data.models.list)),
                    !.allModelDetails = Spread(@, data.modelDetails)]
    ELSE [lc EXCEPT !.modelsConfig = Spread(@, (name :> data.models.list))]

\* Mutant: the details of a group replace the merged ones.
MergeNameDetailsReplaced(lc, name, data, includeDetails) ==
    LET endpoint == lc.endpointsMap[name]
        list == IF data.kind # "null" /\ Len(data.models.list) > 0
                THEN data.models.list
                ELSE DefaultOrEmpty(endpoint)
    IN  IF includeDetails /\ data.kind = "object"
        THEN [lc EXCEPT !.modelsConfig = Spread(@, (name :> list)),
                        !.allModelDetails = data.modelDetails]
        ELSE [lc EXCEPT !.modelsConfig = Spread(@, (name :> list))]

\* Mutant: in detailed mode the fetched list is kept even when it is empty.
MergeNameDetailedNoFallback(lc, name, data, includeDetails) ==
    LET endpoint == lc.endpointsMap[name]
    IN  IF includeDetails /\ data.kind = "object"
        THEN [lc EXCEPT !.modelsConfig = Spread(@, (name :> data.models.list)),
                        !.allModelDetails = Spread(@, data.modelDetails)]
        ELSE LET list == IF data.kind = "array" /\ Len(data.models.list) > 0
                         THEN data.models.list
                         ELSE DefaultOrEmpty(endpoint)
             IN  [lc EXCEPT !.modelsConfig = Spread(@, (name :> list))]

\* Lines 112-125: one name of one group. In detailed mode a result that is an
\* object with a models field is destructured; any other result is read as an
\* array, whose length decides.
MergeName(lc, name, data, includeDetails) ==
    LET endpoint == lc.endpointsMap[name]
    IN  IF includeDetails /\ data.kind = "object"
        THEN LET modelList == data.models
                 list == IF modelList.present /\ Len(modelList.list) > 0
                         THEN modelList.list
                         ELSE DefaultOrEmpty(endpoint)
             IN  [lc EXCEPT !.modelsConfig = Spread(@, (name :> list)),
                            !.allModelDetails = Spread(@, data.modelDetails)]
        ELSE LET list == IF data.kind = "array" /\ Len(data.models.list) > 0
                         THEN data.models.list
                         ELSE DefaultOrEmpty(endpoint)
             IN  [lc EXCEPT !.modelsConfig = Spread(@, (name :> list))]

\* Mutant: only the endpoint that issued the fetch receives its result.
MergeNamesFirstOnly(lc, names, j, data, includeDetails) ==
    IF j > 1 THEN lc ELSE MergeName(lc, names[1], data, includeDetails)

RECURSIVE MergeNames(_, _, _, _, _)
MergeNames(lc, names, j, data, includeDetails) ==
    IF j > Len(names) THEN lc
    ELSE MergeNames(MergeName(lc, names[j], data, includeDetails),
                    names, j + 1, data, includeDetails)

\* Mutant: the groups are merged in the order their fetches settled.
RECURSIVE MergeGroupsAsSettled(_, _, _)
MergeGroupsAsSettled(lc, i, includeDetails) ==
    IF i > Len(lc.settled) THEN lc
    ELSE MergeGroupsAsSettled(
             MergeNames(lc, lc.uniqueKeyToEndpointsMap[lc.keys[lc.settled[i]]], 1,
                        lc.promises[lc.settled[i]].data, includeDetails),
             i + 1, includeDetails)

\* Lines 106-127: the groups in the order of Object.keys(fetchPromisesMap).
RECURSIVE MergeGroups(_, _, _)
MergeGroups(lc, i, includeDetails) ==
    IF i > Len(lc.promises) THEN lc
    ELSE MergeGroups(MergeNames(lc, lc.uniqueKeyToEndpointsMap[lc.keys[i]], 1,
                                lc.promises[i].data, includeDetails),
                     i + 1, includeDetails)

\* Mutant: Promise.allSettled, which never rejects.
PromiseAllSettled(promises) ==
    IF \A i \in 1..Len(promises) : promises[i].state # "pending" THEN "fulfilled"
    ELSE "pending"

\* Mutant: fulfilled as soon as one promise is.
PromiseAny(promises) ==
    IF \E i \in 1..Len(promises) : promises[i].state = "rejected" THEN "rejected"
    ELSE IF Len(promises) = 0 \/ \E i \in 1..Len(promises) : promises[i].state = "fulfilled"
    THEN "fulfilled"
    ELSE "pending"

\* Promise.all over the stored promises.
PromiseAll(promises) ==
    IF \E i \in 1..Len(promises) : promises[i].state = "rejected" THEN "rejected"
    ELSE IF \A i \in 1..Len(promises) : promises[i].state = "fulfilled" THEN "fulfilled"
    ELSE "pending"

\* The value loadConfigModels returns (lines 21, 39, 129-133).
PlainValue(models) == [kind |-> "plain", models |-> models, modelDetails |-> EmptyMap]
DetailedValue(models, details) ==
    [kind |-> "detailed", models |-> models, modelDetails |-> details]

ConfigResult(lc, includeDetails) ==
    IF includeDetails THEN DetailedValue(lc.modelsConfig, lc.allModelDetails)
    ELSE PlainValue(lc.modelsConfig)

\* ------------------------------------------------------------ the cache store
\* Mutant: one key for both modes.
CacheKeyShared(includeDetails) == MODELS_CONFIG

CacheKey(includeDetails) ==
    IF includeDetails THEN MODELS_CONFIG \o "_details" ELSE MODELS_CONFIG

NoValue == [present |-> FALSE, value |-> PlainValue(EmptyMap)]
Some(v) == [present |-> TRUE, value |-> v]

\* cache.get(key)
CacheGet(store, key) == IF key \in DOMAIN store THEN Some(store[key]) ELSE NoValue

\* cache.set(key, value)
CacheSet(store, key, value) == Spread(store, (key :> value))

\* Mutant: the cached value is never used.
IsCachedNever(read) == FALSE

\* if (cachedModelsConfig) / if (!modelsConfig): a stored object is truthy.
IsCached(read) == read.present

\* Mutant: the spread the other way round, default entries win.
ModelConfigDefaultsWin(defaultModelsConfig, customResult, includeDetails) ==
    IF includeDetails
    THEN DetailedValue(Spread(customResult.models, defaultModelsConfig),
                       customResult.modelDetails)
    ELSE PlainValue(Spread(customResult.models, defaultModelsConfig))

\* Mutant: the defaults are dropped.
ModelConfigCustomOnly(defaultModelsConfig, customResult, includeDetails) ==
    IF includeDetails
    THEN DetailedValue(customResult.models, customResult.modelDetails)
    ELSE PlainValue(customResult.models)

\* Lines 42-56 of loadModels: the defaults overlaid with the custom result.
ModelConfig(defaultModelsConfig, customResult, includeDetails) ==
    IF includeDetails
    THEN DetailedValue(Spread(defaultModelsConfig, customResult.models),
                       customResult.modelDetails)
    ELSE PlainValue(Spread(defaultModelsConfig, customResult.models))

\* ------------------------------------------------------------------- state
Procs == {1, 2}

VARIABLES
    appConfig,      \* what getAppConfig yields
    defaultModels,  \* what loadDefaultModels returns
    cache,          \* the CONFIG_STORE: key -> stored value
    proc,           \* per caller: the call in progress and what it observed
    stored,         \* useModelParams: the state behind useLocalStorage
    savedValues,    \* useModelParams: savedValues of the latest render (line 39)
    expected,       \* history: the saved values the calls made so far prescribe
    onlyUpdateParam,\* history: every call so far was an updateParam
    nUpdates        \* history: the number of callback calls

hookVars == <<stored, savedValues, expected, onlyUpdateParam, nUpdates>>
vars == <<appConfig, defaultModels, cache, proc, hookVars>>

NoResponse == [status |-> 0, body |-> NoValue]

\* A caller between calls, with left calls to make.
Idle(left) ==
    [pc |-> "idle", entry |-> "modelController", includeDetails |-> FALSE,
     left |-> left, lc |-> InitLocals(NoAppConfig), custom |-> NoValue,
     modelConfig |-> NoValue, ret |-> NoValue, response |-> NoResponse,
     hit |-> FALSE,
     nDefault |-> 0, nConfig |-> 0, nSet |-> 0]

Entries == {"getModelsConfig", "modelController"}

\* loadModels returns value: getModelsConfig returns it, modelController sends it.
Returned(st, value) ==
    [st EXCEPT !.pc = "done",
               !.ret = Some(value),
               !.response = IF st.entry = "modelController"
                            THEN [status |-> 200, body |-> Some(value)]
                            ELSE @]

\* A rejection leaves loadConfigModels and loadModels uncaught: getModelsConfig
\* rejects, modelController catches it and answers 500 (lines 64-67).
Thrown(st) ==
    IF st.entry = "modelController"
    THEN [st EXCEPT !.pc = "done", !.response = [status |-> 500, body |-> NoValue]]
    ELSE [st EXCEPT !.pc = "failed"]

\* ------------------------------------------------------------------ actions
\* A caller enters getModelsConfig or modelController.
Call(p, entry, includeDetails) ==
    /\ proc[p].pc \in {"idle", "done", "failed"}
    /\ proc[p].left > 0
    /\ proc' = [proc EXCEPT ![p] =
                  [Idle(proc[p].left - 1) EXCEPT
                     !.pc = IF entry = "getModelsConfig" THEN "gmc_get" ELSE "lm_get",
                     !.entry = entry,
                     !.includeDetails = includeDetails]]
    /\ UNCHANGED <<appConfig, defaultModels, cache, hookVars>>

\* getModelsConfig, lines 14-21: the cached value, or loadModels on a miss.
GetModelsConfigRead(p) ==
    /\ proc[p].pc = "gmc_get"
    /\ LET read == CacheGet(cache, CacheKey(proc[p].includeDetails))
       IN  proc' = [proc EXCEPT ![p] =
                      IF IsCached(read)
                      THEN [Returned(@, read.value) EXCEPT !.hit = TRUE]
                      ELSE [@ EXCEPT !.pc = "lm_get"]]
    /\ UNCHANGED <<appConfig, defaultModels, cache, hookVars>>

\* loadModels, lines 32-38.
LoadModelsRead(p) ==
    /\ proc[p].pc = "lm_get"
    /\ LET read == CacheGet(cache, CacheKey(proc[p].includeDetails))
       IN  proc' = [proc EXCEPT ![p] =
                      IF IsCached(read)
                      THEN [Returned(@, read.value) EXCEPT !.hit = TRUE]
                      ELSE [@ EXCEPT !.pc = "lm_default"]]
    /\ UNCHANGED <<appConfig, defaultModels, cache, hookVars>>

\* loadModels, line 40: the default provider returns, or raises.
LoadDefaultModels(p) ==
    /\ proc[p].pc = "lm_default"
    /\ \E ok \in BOOLEAN :
         proc' = [proc EXCEPT ![p] =
                    IF ok
                    THEN [@ EXCEPT !.pc = "lcm_begin", !.nDefault = @ + 1]
                    ELSE Thrown([@ EXCEPT !.nDefault = @ + 1])]
    /\ UNCHANGED <<appConfig, defaultModels, cache, hookVars>>

\* Mutant: a missing application configuration is an error.
LoadConfigModelsBeginStrict(p) ==
    /\ proc[p].pc = "lcm_begin"
    /\ proc' = [proc EXCEPT ![p] =
         LET st == [@ EXCEPT !.nConfig = @ + 1]
             lc == InitLocals(appConfig)
         IN  IF ~appConfig.present
             THEN Thrown(st)
             ELSE IF ~appConfig.customIsArray
             THEN [st EXCEPT !.pc = "lm_store",
                             !.custom = Some(ConfigResult(lc, st.includeDetails))]
             ELSE [st EXCEPT !.lc = lc,
                             !.pc = IF Len(customEndpoints(appConfig)) = 0
                                    THEN "lcm_await" ELSE "lcm_loop"]]
    /\ UNCHANGED <<appConfig, defaultModels, cache, hookVars>>

\* loadConfigModels, lines 17-62: the early returns, or the start of the loop.
LoadConfigModelsBegin(p) ==
    /\ proc[p].pc = "lcm_begin"
    /\ proc' = [proc EXCEPT ![p] =
         LET st == [@ EXCEPT !.nConfig = @ + 1]
             lc == InitLocals(appConfig)
         IN  IF ~appConfig.present
             THEN [st EXCEPT !.pc = "lm_store",
                             !.custom = Some(IF st.includeDetails
                                             THEN DetailedValue(EmptyMap, EmptyMap)
                                             ELSE PlainValue(EmptyMap))]
             ELSE IF ~appConfig.customIsArray
             THEN [st EXCEPT !.pc = "lm_store",
                             !.custom = Some(ConfigResult(lc, st.includeDetails))]
             ELSE [st EXCEPT !.lc = lc,
                             !.pc = IF Len(customEndpoints(appConfig)) = 0
                                    THEN "lcm_await" ELSE "lcm_loop"]]
    /\ UNCHANGED <<appConfig, defaultModels, cache, hookVars>>

\* loadConfigModels, lines 64-101: one iteration.
LoopIteration(p) ==
    /\ proc[p].pc = "lcm_loop"
    /\ LET endpoints == customEndpoints(appConfig)
           lc == LoopBody(proc[p].lc, endpoints[proc[p].lc.i])
       IN  proc' = [proc EXCEPT ![p] =
                      [@ EXCEPT !.lc = lc,
                                !.pc = IF lc.i > Len(endpoints)
                                       THEN "lcm_await" ELSE "lcm_loop"]]
    /\ UNCHANGED <<appConfig, defaultModels, cache, hookVars>>

\* Mutant: when a fetch rejects the defaults are stored before the call fails.
FetchSettlesStoringDefaults(p, k, outcome) ==
    /\ proc[p].pc = "lcm_await"
    /\ k \in 1..Len(proc[p].lc.promises)
    /\ proc[p].lc.promises[k].state = "pending"
    /\ outcome \in fetchFnOutcomes(proc[p].includeDetails)
    /\ LET st == [proc[p] EXCEPT !.lc.promises[k] = outcome,
                                 !.lc.settled = Append(@, k)]
       IN  IF PromiseAll(st.lc.promises) = "rejected"
           THEN /\ proc' = [proc EXCEPT ![p] = Thrown(st)]
                /\ cache' = CacheSet(cache, CacheKey(proc[p].includeDetails),
                                     ModelConfig(defaultModels,
                                                 ConfigResult(st.lc, st.includeDetails),
                                                 st.includeDetails))
           ELSE /\ proc' = [proc EXCEPT ![p] = st]
                /\ cache' = cache
    /\ UNCHANGED <<appConfig, defaultModels, hookVars>>

\* One fetch settles while loadConfigModels awaits Promise.all (line 103); a
\* rejection rejects Promise.all at once.
FetchSettles(p, k, outcome) ==
    /\ proc[p].pc = "lcm_await"
    /\ k \in 1..Len(proc[p].lc.promises)
    /\ proc[p].lc.promises[k].state = "pending"
    /\ outcome \in fetchFnOutcomes(proc[p].includeDetails)
    /\ LET st == [proc[p] EXCEPT !.lc.promises[k] = outcome,
                                 !.lc.settled = Append(@, k)]
       IN  proc' = [proc EXCEPT ![p] =
                      IF PromiseAll(st.lc.promises) = "rejected"
                      THEN Thrown(st) ELSE st]
    /\ UNCHANGED <<appConfig, defaultModels, cache, hookVars>>

\* loadConfigModels, lines 103-133: Promise.all is fulfilled, the groups are
\* merged and the result returned to loadModels.
MergeResults(p) ==
    /\ proc[p].pc = "lcm_await"
    /\ PromiseAll(proc[p].lc.promises) = "fulfilled"
    /\ LET lc == MergeGroups(proc[p].lc, 1, proc[p].includeDetails)
       IN  proc' = [proc EXCEPT ![p] =
                      [@ EXCEPT !.lc = lc,
                                !.custom = Some(ConfigResult(lc, proc[p].includeDetails)),
                                !.pc = "lm_store"]]
    /\ UNCHANGED <<appConfig, defaultModels, cache, hookVars>>

\* Mutant: a populated slot is not written again.
LoadModelsStoreIfAbsent(p) ==
    /\ proc[p].pc = "lm_store"
    /\ LET modelConfig == ModelConfig(defaultModels, proc[p].custom.value,
                                      proc[p].includeDetails)
           key == CacheKey(proc[p].includeDetails)
       IN  IF key \in DOMAIN cache
           THEN /\ cache' = cache
                /\ proc' = [proc EXCEPT ![p] =
                              [@ EXCEPT !.modelConfig = Some(modelConfig),
                                        !.pc = "lm_set"]]
           ELSE /\ cache' = CacheSet(cache, key, modelConfig)
                /\ proc' = [proc EXCEPT ![p] =
                              [@ EXCEPT !.modelConfig = Some(modelConfig),
                                        !.nSet = @ + 1,
                                        !.pc = "lm_set"]]
    /\ UNCHANGED <<appConfig, defaultModels, hookVars>>

\* loadModels, lines 42-48 and 52-55: merge with the defaults and call
\* cache.set, which applies the write; loadModels then awaits its answer.
LoadModelsStore(p) ==
    /\ proc[p].pc = "lm_store"
    /\ LET modelConfig == ModelConfig(defaultModels, proc[p].custom.value,
                                      proc[p].includeDetails)
       IN  /\ cache' = CacheSet(cache, CacheKey(proc[p].includeDetails), modelConfig)
           /\ proc' = [proc EXCEPT ![p] =
                         [@ EXCEPT !.modelConfig = Some(modelConfig),
                                   !.nSet = @ + 1,
                                   !.pc = "lm_set"]]
    /\ UNCHANGED <<appConfig, defaultModels, hookVars>>

\* loadModels, lines 49 and 56: cache.set has answered, modelConfig is
\* returned, and modelController sends it (line 62).
LoadModelsReturn(p) ==
    /\ proc[p].pc = "lm_set"
    /\ proc' = [proc EXCEPT ![p] = Returned(@, proc[p].modelConfig.value)]
    /\ UNCHANGED <<appConfig, defaultModels, cache, hookVars>>

\* ---------------------------------------------------------- useModelParams
\* The names and values of model parameters.
ParamNames == {"temperature", "top_p"}
ParamValues == {"v1", "v2"}
ModelParamValues == UNION {[names -> ParamValues] : names \in SUBSET ParamNames}

\* The setter useLocalStorage returns, called with a value: the value replaces
\* the state, and the hook renders again later.
setSavedValues(state, newValues) == newValues

\* The hook is not mounted.
HookUnmounted ==
    /\ stored = EmptyMap
    /\ savedValues = EmptyMap
    /\ expected = EmptyMap
    /\ onlyUpdateParam = TRUE
    /\ nUpdates = 0

\* Lines 70-79: updateParam(name, value), the callback of the latest render.
UpdateParam(name, value) ==
    /\ nUpdates < MaxUpdates
    /\ LET newValues == Spread(savedValues, (name :> value))
       IN  stored' = setSavedValues(stored, newValues)
    /\ expected' = Spread(expected, (name :> value))
    /\ nUpdates' = nUpdates + 1
    /\ UNCHANGED <<appConfig, defaultModels, cache, proc, savedValues, onlyUpdateParam>>

\* Lines 81-90: updateParams(params).
UpdateParams(params) ==
    /\ nUpdates < MaxUpdates
    /\ LET newValues == Spread(savedValues, params)
       IN  stored' = setSavedValues(stored, newValues)
    /\ expected' = Spread(expected, params)
    /\ onlyUpdateParam' = FALSE
    /\ nUpdates' = nUpdates + 1
    /\ UNCHANGED <<appConfig, defaultModels, cache, proc, savedValues>>

\* Lines 92-94: resetToDefaults().
ResetToDefaults ==
    /\ nUpdates < MaxUpdates
    /\ stored' = setSavedValues(stored, EmptyMap)
    /\ expected' = EmptyMap
    /\ onlyUpdateParam' = FALSE
    /\ nUpdates' = nUpdates + 1
    /\ UNCHANGED <<appConfig, defaultModels, cache, proc, savedValues>>

\* The hook renders again after a state change: line 39 reads the state, and
\* the callbacks are made anew over it (the dependency lists of lines 78, 89).
Render ==
    /\ savedValues # stored
    /\ savedValues' = stored
    /\ UNCHANGED <<appConfig, defaultModels, cache, proc, stored, expected,
                   onlyUpdateParam, nUpdates>>

NextParams ==
    \/ \E name \in ParamNames, value \in ParamValues : UpdateParam(name, value)
    \/ \E params \in ModelParamValues : UpdateParams(params)
    \/ ResetToDefaults
    \/ Render

\* The hook mounted over any stored values; no server call is made.
InitParams ==
    /\ appConfig = NoAppConfig
    /\ defaultModels = ("openAI" :> <<Str("gpt")>>)
    /\ cache = EmptyMap
    /\ proc = [p \in Procs |-> Idle(0)]
    /\ stored \in ModelParamValues
    /\ savedValues = stored
    /\ expected = stored
    /\ onlyUpdateParam = TRUE
    /\ nUpdates = 0

SpecParams == InitParams /\ [][NextParams]_vars

\* ------------------------------------------------------- the server's calls
Next ==
    \E p \in Procs :
        \/ \E entry \in Entries, includeDetails \in BOOLEAN :
               Call(p, entry, includeDetails)
        \/ GetModelsConfigRead(p)
        \/ LoadModelsRead(p)
        \/ LoadDefaultModels(p)
        \/ LoadConfigModelsBegin(p)
        \/ LoopIteration(p)
        \/ \E k \in 1..Len(proc[p].lc.promises),
              outcome \in fetchFnOutcomes(proc[p].includeDetails) :
               FetchSettles(p, k, outcome)
        \/ MergeResults(p)
        \/ LoadModelsStore(p)
        \/ LoadModelsReturn(p)

\* One caller, one call, over every application configuration.
Init ==
    /\ appConfig \in AppConfigs
    /\ defaultModels \in DefaultModelsChoices
    /\ cache = EmptyMap
    /\ proc = [p \in Procs |-> Idle(IF p = 1 THEN 1 ELSE 0)]
    /\ HookUnmounted

Spec == Init /\ [][Next]_vars

\* Two callers, MaxCalls calls each, over a few application configurations.
CacheAppConfigs ==
    { AppConfig(NoAzure, TRUE, <<>>),
      AppConfig(NoAzure, TRUE,
                <<Endpoint("A", "https://x", "K", TRUE, List(<<Str("d1")>>))>>) }

InitCache ==
    /\ appConfig \in CacheAppConfigs
    /\ defaultModels \in DefaultModelsChoices
    /\ cache = EmptyMap
    /\ proc = [p \in Procs |-> Idle(MaxCalls)]
    /\ HookUnmounted

SpecCache == InitCache /\ [][Next]_vars

\* Two callers, one call each, over a few application configurations: none, one
\* without a custom list, one with a fetched and a not fetched endpoint next to
\* Azure, and one with two groups.
ModesAppConfigs ==
    { NoAppConfig,
      AppConfig(CHOOSE az \in AzureChoices : az.present, FALSE, <<>>),
      AppConfig(CHOOSE az \in AzureChoices : az.present, TRUE,
                <<Endpoint("A", "https://x", "K", TRUE, List(<<Str("d1")>>)),
                  Endpoint("Ollama", "https://y", "K", FALSE,
                           List(<<Obj("d2"), Str("d1")>>))>>),
      AppConfig(NoAzure, TRUE,
                <<Endpoint("B", "https://x", "${KEY}", TRUE, List(<<Obj("d2")>>)),
                  Endpoint("C", "https://x__", "K", TRUE, NoList)>>) }

InitModes ==
    /\ appConfig \in ModesAppConfigs
    /\ defaultModels \in DefaultModelsChoices
    /\ cache = EmptyMap
    /\ proc = [p \in Procs |-> Idle(1)]
    /\ HookUnmounted

SpecModes == InitModes /\ [][Next]_vars

\* ------------------------------------------------------------------ claims
\* The eligible endpoints of the configuration, in order, and the positions of
\* those that require a fetch.
Endpoints == customEndpoints(appConfig)
FetchPositions == {i \in 1..Len(Endpoints) : RequiresFetch(Endpoints[i])}
NameAt(i) == normalizeEndpointName(Endpoints[i].name)
ResolvedPair(i) == <<extractEnvVariable(Endpoints[i].baseURL),
                     extractEnvVariable(Endpoints[i].apiKey)>>
ConfiguredDefault(i) ==
    IF Endpoints[i].default.present THEN Endpoints[i].default.list ELSE <<>>

\* loadConfigModels has run its loop to the end in caller p's current call.
LoopDone(p) ==
    /\ proc[p].nConfig = 1
    /\ appConfig.present /\ appConfig.customIsArray
    /\ proc[p].pc # "lcm_loop"

\* loadConfigModels has returned its result to loadModels.
ConfigReturned(p) == LoopDone(p) /\ proc[p].custom.present

\* What the fetch of endpoint i's group settled with.
FetchedFor(p, i) ==
    proc[p].lc.promises[IndexOf(proc[p].lc.keys, EndpointKey(Endpoints[i]))].data
NonEmptyFetch(data) == data.models.present /\ Len(data.models.list) > 0

\* C1: at every point of a resolution pass the fetch collaborator has been
\* invoked once per distinct FetchKey among the fetch-requiring endpoints
\* visited so far, so after the loop once per distinct FetchKey, never more.
C1_OneFetchPerKey ==
    \A p \in Procs :
        Len(proc[p].lc.fetchLog) =
            Cardinality({EndpointKey(Endpoints[i]) :
                            i \in {j \in FetchPositions : j < proc[p].lc.i}})

\* Two fetch-requiring endpoints share a key and one fetch was invoked.
C1_Witness ==
    \E p \in Procs :
        /\ LoopDone(p)
        /\ \E i, j \in FetchPositions : i # j /\ ResolvedPair(i) = ResolvedPair(j)
        /\ Len(proc[p].lc.fetchLog) = 1

\* C2 as stated: two fetch-requiring endpoints with the same resolved baseURL
\* and apiKey and different names end with the same ModelList, whatever the
\* shared fetch returned.
C2_SharedKeySameList ==
    \A p \in Procs : ConfigReturned(p) =>
        \A i, j \in FetchPositions :
            (ResolvedPair(i) = ResolvedPair(j) /\ NameAt(i) # NameAt(j)) =>
                proc[p].custom.value.models[NameAt(i)] =
                    proc[p].custom.value.models[NameAt(j)]

\* C2 amended: they end with the same ModelList, the fetched one, when the
\* shared fetch returned a non-empty list; when it returned an empty or absent
\* list their lists are equal exactly when their configured defaults are.
C2_SharedKeySameListWhenFetched ==
    \A p \in Procs : ConfigReturned(p) =>
        \A i, j \in FetchPositions :
            (ResolvedPair(i) = ResolvedPair(j) /\ NameAt(i) # NameAt(j)) =>
                LET li == proc[p].custom.value.models[NameAt(i)]
                    lj == proc[p].custom.value.models[NameAt(j)]
                    data == FetchedFor(p, i)
                IN  /\ FetchedFor(p, j) = data
                    /\ NonEmptyFetch(data) => (li = data.models.list /\ lj = li)
                    /\ ~NonEmptyFetch(data) =>
                           ((li = lj) <=> (ConfiguredDefault(i) = ConfiguredDefault(j)))

\* Two endpoints of one group received the fetched list.
C2_Witness ==
    \E p \in Procs :
        /\ ConfigReturned(p)
        /\ \E i, j \in FetchPositions :
              /\ ResolvedPair(i) = ResolvedPair(j)
              /\ NameAt(i) # NameAt(j)
              /\ NonEmptyFetch(FetchedFor(p, i))
              /\ proc[p].custom.value.models[NameAt(i)] = FetchedFor(p, i).models.list
              /\ Len(proc[p].lc.fetchLog) = 1

\* C3: in both modes a fetched endpoint ends with the fetched list when that
\* list is non-empty, and otherwise with its configured models.default list,
\* or the empty list when it has none.
C3_FallbackToDefault ==
    \A p \in Procs : ConfigReturned(p) =>
        \A i \in FetchPositions :
            proc[p].custom.value.models[NameAt(i)] =
                IF NonEmptyFetch(FetchedFor(p, i))
                THEN FetchedFor(p, i).models.list
                ELSE ConfiguredDefault(i)

\* A detailed fetch returned an empty list and the endpoint got its default.
C3_Witness ==
    \E p \in Procs :
        /\ ConfigReturned(p)
        /\ proc[p].includeDetails
        /\ \E i \in FetchPositions :
              /\ FetchedFor(p, i).kind = "object"
              /\ ~NonEmptyFetch(FetchedFor(p, i))
              /\ Endpoints[i].default.present
              /\ proc[p].custom.value.models[NameAt(i)] = Endpoints[i].default.list

\* A caller about to read the cache whose slot is populated.
ReadsPopulated(p) ==
    /\ proc[p].pc \in {"gmc_get", "lm_get"}
    /\ CacheKey(proc[p].includeDetails) \in DOMAIN cache

\* C4: once a miss has populated a slot, a call of the same verbosity that
\* reads it returns the stored value and invokes neither loadDefaultModels nor
\* loadConfigModels nor the fetch collaborator, and leaves the cache as it is.
C4_CacheRoundTrip ==
    [][\A p \in Procs :
          (ReadsPopulated(p) /\ proc'[p] # proc[p]) =>
              /\ proc'[p].pc = "done"
              /\ proc'[p].ret = Some(cache[CacheKey(proc[p].includeDetails)])
              /\ proc'[p].nDefault = 0
              /\ proc'[p].nConfig = 0
              /\ proc'[p].nSet = 0
              /\ proc'[p].lc.fetchLog = <<>>
              /\ cache' = cache]_vars

\* A call has returned the value another call's miss stored, with no
\* collaborator invoked, for an endpoint that would have required a fetch.
C4_Witness ==
    \E p, q \in Procs :
        /\ p # q
        /\ proc[q].pc = "done" /\ proc[q].nSet = 1
        /\ Len(proc[q].lc.fetchLog) = 1
        /\ proc[p].pc = "done" /\ proc[p].hit
        /\ proc[p].includeDetails = proc[q].includeDetails
        /\ proc[p].ret = proc[q].ret
        /\ proc[p].ret = Some(cache[CacheKey(proc[p].includeDetails)])
        /\ proc[p].nDefault = 0 /\ proc[p].nConfig = 0
        /\ proc[p].lc.fetchLog = <<>>

\* A miss of loadModels has run to its return in caller p's current call.
MissDone(p) == proc[p].pc = "done" /\ ~proc[p].hit /\ proc[p].ret.present

NoCustomList == ~appConfig.present \/ ~appConfig.customIsArray

\* C5 as stated: without a custom-endpoint list the models loadModels returns
\* and caches are the default provider's ModelsConfig unchanged.
C5_DefaultsUnchanged ==
    \A p \in Procs : (MissDone(p) /\ NoCustomList) =>
        proc[p].ret.value.models = defaultModels

\* C5 amended: without a custom-endpoint list the models loadModels returns and
\* caches are the default provider's ModelsConfig with the Azure entries of the
\* application configuration laid over it: azureOpenAI is the configured
\* modelNames, azureAssistants the configured assistantModels when assistants is
\* set, every other default entry is kept unchanged and no other entry exists.
C5_DefaultsWithAzure ==
    \A p \in Procs : (MissDone(p) /\ NoCustomList) =>
        LET models == proc[p].ret.value.models
            az == appConfig.azure
            hasNames == appConfig.present /\ az.present /\ az.modelNames.present
            hasAssistants == /\ appConfig.present /\ az.present /\ az.assistants
                             /\ az.assistantModels.present
            azureNames == (IF hasNames THEN {azureOpenAI} ELSE {})
                          \cup (IF hasAssistants THEN {azureAssistants} ELSE {})
        IN  /\ DOMAIN models = DOMAIN defaultModels \cup azureNames
            /\ hasNames => models[azureOpenAI] = az.modelNames.list
            /\ hasAssistants => models[azureAssistants] = az.assistantModels.list
            /\ \A n \in DOMAIN defaultModels \ azureNames : models[n] = defaultModels[n]
            /\ proc[p].ret.value.modelDetails = EmptyMap
            /\ cache[CacheKey(proc[p].includeDetails)] = proc[p].ret.value

\* The custom-endpoint configuration is not a list, Azure is configured and the
\* defaults hold an azureOpenAI entry, which the configured one replaced.
C5_Witness ==
    \E p \in Procs :
        /\ MissDone(p) /\ NoCustomList
        /\ appConfig.present /\ appConfig.azure.present
        /\ azureOpenAI \in DOMAIN defaultModels
        /\ proc[p].ret.value.models[azureOpenAI] = appConfig.azure.modelNames.list
        /\ proc[p].ret.value.models[azureOpenAI] # defaultModels[azureOpenAI]
        /\ proc[p].ret.value.models["openAI"] = defaultModels["openAI"]

SomeFetchRejected(p) ==
    \E k \in 1..Len(proc[p].lc.promises) : proc[p].lc.promises[k].state = "rejected"

\* C6: when a fetch of a resolution rejects, loadConfigModels returns nothing,
\* loadModels stores and returns nothing, getModelsConfig fails, and
\* modelController answers with status 500 and no models.
C6_FetchFailureIsFatal ==
    \A p \in Procs : SomeFetchRejected(p) =>
        /\ ~proc[p].custom.present
        /\ ~proc[p].ret.present
        /\ proc[p].nSet = 0
        /\ cache = EmptyMap
        /\ proc[p].entry = "modelController" =>
               /\ proc[p].pc = "done"
               /\ proc[p].response.status = 500
               /\ ~proc[p].response.body.present
        /\ proc[p].entry = "getModelsConfig" => proc[p].pc = "failed"

\* modelController answered 500 after the fetch of an endpoint that has a
\* default list rejected.
C6_Witness ==
    \E p \in Procs :
        /\ SomeFetchRejected(p)
        /\ proc[p].entry = "modelController"
        /\ proc[p].response.status = 500
        /\ \E i \in FetchPositions : Endpoints[i].default.present

SomeFetchPending(p) ==
    \E k \in 1..Len(proc[p].lc.promises) : proc[p].lc.promises[k].state = "pending"

\* C7: while a fetch of the pass is outstanding no endpoint of a group has
\* received a list, no modelDetails are merged and loadConfigModels has not
\* returned; when it has returned, every fetch of the pass is fulfilled.
C7_MergeAfterAllFetches ==
    \A p \in Procs :
        /\ SomeFetchPending(p) =>
              /\ ~proc[p].custom.present
              /\ proc[p].lc.allModelDetails = EmptyMap
              /\ \A key \in DOMAIN proc[p].lc.uniqueKeyToEndpointsMap :
                    \A n \in Range(proc[p].lc.uniqueKeyToEndpointsMap[key]) :
                        proc[p].lc.modelsConfig[n] = <<>>
        /\ ConfigReturned(p) =>
              \A k \in 1..Len(proc[p].lc.promises) :
                  proc[p].lc.promises[k].state = "fulfilled"

\* The fetch issued second has completed with a list while the one issued
\* first is outstanding, and nothing is merged.
C7_Witness ==
    \E p \in Procs :
        /\ proc[p].pc = "lcm_await"
        /\ Len(proc[p].lc.promises) = 2
        /\ proc[p].lc.promises[1].state = "pending"
        /\ proc[p].lc.promises[2].state = "fulfilled"
        /\ NonEmptyFetch(proc[p].lc.promises[2].data)
        /\ ~proc[p].custom.present

\* Two callers of the same verbosity to whom the fetch collaborator returned
\* the same values (the default provider returns defaultModels to every caller).
SameInputs(p, q) ==
    /\ proc[p].includeDetails = proc[q].includeDetails
    /\ proc[p].lc.promises = proc[q].lc.promises

\* C8: every caller that misses runs the default provider and loadConfigModels
\* itself and writes the slot once; callers of one verbosity that were given
\* the same values return equal values, and the slot then holds that value.
C8_ConcurrentMisses ==
    \A p \in Procs : MissDone(p) =>
        /\ proc[p].nDefault = 1 /\ proc[p].nConfig = 1 /\ proc[p].nSet = 1
        /\ CacheKey(proc[p].includeDetails) \in DOMAIN cache
        /\ \A q \in Procs \ {p} : (MissDone(q) /\ SameInputs(p, q)) =>
              /\ proc[p].ret = proc[q].ret
              /\ cache[CacheKey(proc[p].includeDetails)] = proc[p].ret.value

\* Two callers missed the same slot, each fetched and wrote, and both returned
\* the value the slot holds.
C8_Witness ==
    \E p, q \in Procs :
        /\ p # q
        /\ MissDone(p) /\ MissDone(q) /\ SameInputs(p, q)
        /\ Len(proc[p].lc.fetchLog) = 1 /\ Len(proc[q].lc.fetchLog) = 1
        /\ NonEmptyFetch(proc[p].lc.promises[1].data)
        /\ proc[p].nSet = 1 /\ proc[q].nSet = 1
        /\ proc[p].ret = proc[q].ret
        /\ cache[CacheKey(proc[p].includeDetails)] = proc[p].ret.value

KindOf(includeDetails) == IF includeDetails THEN "detailed" ELSE "plain"

\* C9: a detailed call returns {models, modelDetails} and a plain call a plain
\* mapping, to getModelsConfig's caller and in modelController's answer alike,
\* and each slot holds a value of its own mode only.
C9_ModesNeverMix ==
    /\ \A p \in Procs :
          /\ proc[p].ret.present =>
                proc[p].ret.value.kind = KindOf(proc[p].includeDetails)
          /\ proc[p].response.body.present =>
                proc[p].response.body.value.kind = KindOf(proc[p].includeDetails)
    /\ \A d \in BOOLEAN :
          CacheKey(d) \in DOMAIN cache => cache[CacheKey(d)].kind = KindOf(d)

\* Both slots are populated and a detailed call was served from the cache.
C9_Witness ==
    \E p \in Procs :
        /\ DOMAIN cache = {CacheKey(TRUE), CacheKey(FALSE)}
        /\ proc[p].pc = "done" /\ proc[p].hit /\ proc[p].includeDetails
        /\ proc[p].ret.value.kind = "detailed"
        /\ cache[CacheKey(FALSE)].kind = "plain"

\* C10: on a miss the stored and returned models hold, for every name of the
\* custom-endpoint result, the custom entry, and for every other name of the
\* defaults the default entry, and nothing else; in detailed mode the
\* modelDetails are those of the custom-endpoint result.
C10_CustomOverridesDefault ==
    \A p \in Procs : (MissDone(p) /\ proc[p].custom.present) =>
        LET models == proc[p].ret.value.models
            custom == proc[p].custom.value
        IN  /\ DOMAIN models = DOMAIN defaultModels \cup DOMAIN custom.models
            /\ \A n \in DOMAIN custom.models : models[n] = custom.models[n]
            /\ \A n \in DOMAIN defaultModels \ DOMAIN custom.models :
                  models[n] = defaultModels[n]
            /\ proc[p].ret.value.modelDetails = custom.modelDetails
            /\ proc[p].ret.value.kind = KindOf(proc[p].includeDetails)
            /\ cache[CacheKey(proc[p].includeDetails)] = proc[p].ret.value

\* A custom endpoint named like a default entry replaced it, another default
\* entry was kept.
C10_Witness ==
    \E p \in Procs :
        /\ MissDone(p) /\ proc[p].custom.present
        /\ "A" \in DOMAIN defaultModels /\ "A" \in DOMAIN proc[p].custom.value.models
        /\ proc[p].custom.value.models["A"] # defaultModels["A"]
        /\ proc[p].ret.value.models["A"] = proc[p].custom.value.models["A"]
        /\ proc[p].ret.value.models["openAI"] = defaultModels["openAI"]
        /\ proc[p].includeDetails


\* The eligible endpoints whose resolved apiKey or baseURL is the user-provided
\* placeholder.
UserProvidedPositions ==
    {i \in 1..Len(Endpoints) :
        \/ isUserProvided(extractEnvVariable(Endpoints[i].apiKey))
        \/ isUserProvided(extractEnvVariable(Endpoints[i].baseURL))}

\* A configured list as model identifiers: a structured entry gives its name.
NamesOf(list) == [k \in 1..Len(list) |-> Str(list[k].name)]

\* C11: an endpoint with a user-provided apiKey or baseURL is never the subject
\* of a fetch invocation and joins no group, whatever models.fetch says, and
\* loadConfigModels returns for it its configured default list as model
\* identifiers (the empty list when it has none).
C11_UserProvidedNeverFetched ==
    \A p \in Procs : \A i \in UserProvidedPositions :
        /\ \A k \in 1..Len(proc[p].lc.fetchLog) :
              /\ proc[p].lc.fetchLog[k].name # NameAt(i)
              /\ ~isUserProvided(proc[p].lc.fetchLog[k].apiKey)
              /\ ~isUserProvided(proc[p].lc.fetchLog[k].baseURL)
        /\ \A key \in DOMAIN proc[p].lc.uniqueKeyToEndpointsMap :
              NameAt(i) \notin Range(proc[p].lc.uniqueKeyToEndpointsMap[key])
        /\ ConfigReturned(p) =>
              proc[p].custom.value.models[NameAt(i)] = NamesOf(ConfiguredDefault(i))

\* An endpoint with models.fetch set and a user-provided apiKey got its default
\* list while another endpoint of the list was fetched.
C11_Witness ==
    \E p \in Procs : \E i \in UserProvidedPositions :
        /\ ConfigReturned(p)
        /\ Endpoints[i].fetch
        /\ Len(ConfiguredDefault(i)) = 2
        /\ proc[p].custom.value.models[NameAt(i)] = NamesOf(ConfiguredDefault(i))
        /\ Len(proc[p].lc.fetchLog) = 1
        /\ NonEmptyFetch(proc[p].lc.promises[1].data)


\* The fetch results of caller p's pass that carry metadata for model id.
Holders(p, id) ==
    {k \in 1..Len(proc[p].lc.promises) :
        id \in DOMAIN proc[p].lc.promises[k].data.modelDetails}
FetchedIds(p) ==
    UNION {DOMAIN proc[p].lc.promises[k].data.modelDetails :
              k \in 1..Len(proc[p].lc.promises)}

\* C12: in detailed mode every model id with metadata in some fetch result of
\* the pass is a key of the modelDetails loadConfigModels returns, and an id
\* that only one fetch result carries has the fetched value.
C12_DetailsNeverDropped ==
    \A p \in Procs :
        (ConfigReturned(p) /\ proc[p].includeDetails) =>
            \A id \in FetchedIds(p) :
                /\ id \in DOMAIN proc[p].custom.value.modelDetails
                /\ \A k \in Holders(p, id) :
                      Holders(p, id) = {k} =>
                          proc[p].custom.value.modelDetails[id]
                              = proc[p].lc.promises[k].data.modelDetails[id]

\* Two groups with disjoint metadata, both kept.
C12_Witness ==
    \E p \in Procs :
        /\ ConfigReturned(p) /\ proc[p].includeDetails
        /\ Len(proc[p].lc.promises) = 2
        /\ Holders(p, "m1") = {1} /\ Holders(p, "m3") = {2}
        /\ proc[p].custom.value.modelDetails["m1"] = "p1"
        /\ proc[p].custom.value.modelDetails["m3"] = "p3"

\* The first position of the configuration list whose FetchKey is key.
FirstPosition(key) ==
    CHOOSE i \in FetchPositions :
        /\ EndpointKey(Endpoints[i]) = key
        /\ \A j \in FetchPositions : EndpointKey(Endpoints[j]) = key => i <= j
Largest(S) == CHOOSE k \in S : \A j \in S : j <= k

\* C13: the groups are processed in the order their FetchKeys first appear in
\* the configuration list, and in detailed mode the metadata returned for a
\* model id is that of the last group in this order that carries it, in
\* whatever order the fetches settled.
C13_LastGroupWins ==
    \A p \in Procs :
        /\ LoopDone(p) =>
              \A a, b \in 1..Len(proc[p].lc.keys) :
                  a < b => FirstPosition(proc[p].lc.keys[a])
                               < FirstPosition(proc[p].lc.keys[b])
        /\ (ConfigReturned(p) /\ proc[p].includeDetails) =>
              \A id \in FetchedIds(p) :
                  proc[p].custom.value.modelDetails[id]
                      = proc[p].lc.promises[Largest(Holders(p, id))].data.modelDetails[id]

\* Both groups carry "shared" with different content, the second group's fetch
\* settled first, and the second group's content is returned.
C13_Witness ==
    \E p \in Procs :
        /\ ConfigReturned(p) /\ proc[p].includeDetails
        /\ proc[p].lc.settled = <<2, 1>>
        /\ Holders(p, "shared") = {1, 2}
        /\ proc[p].lc.promises[1].data.modelDetails["shared"] = "s1"
        /\ proc[p].lc.promises[2].data.modelDetails["shared"] = "s2"
        /\ proc[p].custom.value.modelDetails["shared"] = "s2"

\* C14: without an application configuration loadConfigModels returns the empty
\* result of its mode, no fetch is invoked, and the call does not fail.
C14_NoAppConfigEmptyResult ==
    \A p \in Procs :
        (~appConfig.present /\ proc[p].nConfig = 1) =>
            /\ proc[p].custom.present
            /\ proc[p].custom.value.models = EmptyMap
            /\ proc[p].custom.value.modelDetails = EmptyMap
            /\ proc[p].custom.value.kind = KindOf(proc[p].includeDetails)
            /\ proc[p].lc.fetchLog = <<>>
            /\ proc[p].pc \in {"lm_store", "lm_set", "done"}
            /\ proc[p].response.status # 500
            /\ proc[p].pc = "done" =>
                  /\ proc[p].ret.present
                  /\ proc[p].ret.value.models = defaultModels

\* A detailed call without an application configuration returned the defaults.
C14_Witness ==
    \E p \in Procs :
        /\ ~appConfig.present /\ proc[p].nConfig = 1
        /\ proc[p].includeDetails
        /\ proc[p].pc = "done"
        /\ proc[p].response.status = 200
        /\ proc[p].custom.value = DetailedValue(EmptyMap, EmptyMap)
        /\ proc[p].ret.value.models = defaultModels


\* The groups of caller p's pass and the key of the group that holds a name.
Groups(p) == proc[p].lc.uniqueKeyToEndpointsMap
GroupsOf(p, name) == {key \in DOMAIN Groups(p) : name \in Range(Groups(p)[key])}

\* C15: two fetch-requiring endpoints are in the same group, and so share one
\* fetch invocation and its result, only if their resolved baseURL are equal and
\* their resolved apiKey are equal.
C15_KeyIdentifiesPair ==
    \A p \in Procs :
        LoopDone(p) =>
            \A i, j \in FetchPositions :
                GroupsOf(p, NameAt(i)) \cap GroupsOf(p, NameAt(j)) # {} =>
                    ResolvedPair(i) = ResolvedPair(j)

\* The positions of the configuration list that belong to the group of key.
PositionsOf(key) == {i \in FetchPositions : EndpointKey(Endpoints[i]) = key}

\* C16 as stated: every fetch-requiring endpoint visited so far is in exactly
\* one group, and no name joins a group once fetchFn has been invoked.
C16_GroupsCompleteBeforeFirstFetch ==
    [][\A p \in Procs :
          (proc[p].pc = "lcm_loop" /\ proc'[p].nConfig = proc[p].nConfig) =>
              /\ \A i \in FetchPositions :
                    i < proc'[p].lc.i => Cardinality(GroupsOf(p, NameAt(i))') = 1
              /\ proc[p].lc.fetchLog # <<>> => Groups(p)' = Groups(p)]_vars

\* C16: when the loop has ended every fetch-requiring endpoint is in exactly
\* one group, the group of its key, every group holds the names of all the
\* endpoints with its key, and no fetch settles and no result is merged before.
C16_GroupsCompleteBeforeSettle ==
    \A p \in Procs :
        /\ LoopDone(p) =>
              /\ DOMAIN Groups(p) = {EndpointKey(Endpoints[i]) : i \in FetchPositions}
              /\ \A i \in FetchPositions :
                    GroupsOf(p, NameAt(i)) = {EndpointKey(Endpoints[i])}
              /\ \A key \in DOMAIN Groups(p) :
                    /\ Len(Groups(p)[key]) = Cardinality(PositionsOf(key))
                    /\ Range(Groups(p)[key]) = {NameAt(i) : i \in PositionsOf(key)}
        /\ (proc[p].nConfig = 1 /\ proc[p].pc = "lcm_loop") =>
              /\ proc[p].lc.settled = <<>>
              /\ ~proc[p].custom.present
              /\ \A k \in 1..Len(proc[p].lc.promises) :
                    proc[p].lc.promises[k].state = "pending"

\* A group of two names whose single fetch, invoked at the first of them, has
\* settled after the loop.
C16_Witness ==
    \E p \in Procs : \E key \in DOMAIN Groups(p) :
        /\ LoopDone(p)
        /\ Len(Groups(p)[key]) = 2
        /\ Groups(p)[key][1] # Groups(p)[key][2]
        /\ Len(proc[p].lc.fetchLog) = 1
        /\ proc[p].lc.fetchLog[1].name = Groups(p)[key][1]
        /\ proc[p].lc.settled = <<1>>

\* C17: every list loadConfigModels returns holds plain model identifiers only,
\* for endpoints that are not fetched and for fetched endpoints that fall back
\* to their default list alike.
C17_ListsArePlainStrings ==
    \A p \in Procs :
        proc[p].custom.present =>
            \A name \in DOMAIN proc[p].custom.value.models :
                \A k \in 1..Len(proc[p].custom.value.models[name]) :
                    ~proc[p].custom.value.models[name][k].obj


\* Caller p's call has failed: getModelsConfig rejected, or modelController
\* answered with status 500.
Failed(p) == proc[p].pc = "failed" \/ proc[p].response.status = 500

\* C19: a step of a resolution changes the cache only when it is the cache.set
\* of loadModels, the first and only write of the call, made after the default
\* provider and loadConfigModels have returned with every fetch fulfilled, and
\* the value written is the complete result the call then returns; a step that
\* makes the call fail writes nothing, and a failed call has written nothing.
C19_FailureLeavesCache ==
    [][\A p \in Procs :
          proc'[p] # proc[p] =>
              /\ cache' # cache =>
                    /\ proc[p].pc = "lm_store" /\ proc'[p].pc = "lm_set"
                    /\ proc[p].nSet = 0 /\ proc'[p].nSet = 1
                    /\ proc[p].nDefault = 1 /\ proc[p].nConfig = 1
                    /\ proc[p].custom.present
                    /\ \A k \in 1..Len(proc[p].lc.promises) :
                          proc[p].lc.promises[k].state = "fulfilled"
                    /\ ~Failed(p)'
                    /\ cache' = [key \in DOMAIN cache
                                           \cup {CacheKey(proc[p].includeDetails)} |->
                                    IF key = CacheKey(proc[p].includeDetails)
                                    THEN proc'[p].modelConfig.value ELSE cache[key]]
              /\ (proc[p].pc = "lm_set" /\ proc'[p].nConfig = proc[p].nConfig) =>
                    /\ proc'[p].pc = "done" /\ ~Failed(p)'
                    /\ proc'[p].ret = proc[p].modelConfig
              /\ Failed(p)' => (cache' = cache /\ proc'[p].nSet = 0)
              /\ proc'[p].nSet <= 1]_vars

\* A call failed on a rejected fetch and wrote nothing, while the other slot,
\* written by an earlier call, is still there.
C19_Witness ==
    \E p \in Procs :
        /\ Failed(p)
        /\ SomeFetchRejected(p)
        /\ proc[p].nSet = 0
        /\ DOMAIN cache = {CacheKey(~proc[p].includeDetails)}

\* The normalized names of the custom endpoints that have a name, a baseURL, an
\* apiKey and a models object with fetch or a default list.
EligibleNames ==
    IF appConfig.present /\ appConfig.customIsArray
    THEN {normalizeEndpointName(appConfig.custom[i].name) :
             i \in {j \in 1..Len(appConfig.custom) :
                       /\ appConfig.custom[j].name # ""
                       /\ appConfig.custom[j].baseURL # ""
                       /\ appConfig.custom[j].apiKey # ""
                       /\ appConfig.custom[j].hasModels
                       /\ (appConfig.custom[j].fetch
                           \/ appConfig.custom[j].default.present)}}
    ELSE {}

\* C20: the mapping loadConfigModels returns has an entry for the normalized
\* name of every eligible custom endpoint, and no entry under any other name
\* but the two Azure names, whatever the fetches returned.
C20_EntryPerEligibleEndpoint ==
    \A p \in Procs :
        (proc[p].nConfig = 1 /\ proc[p].custom.present) =>
            /\ EligibleNames \subseteq DOMAIN proc[p].custom.value.models
            /\ DOMAIN proc[p].custom.value.models
                  \subseteq EligibleNames \cup {azureOpenAI, azureAssistants}

\* A list of an eligible and an ineligible endpoint next to an Azure
\* configuration: the entries are the eligible endpoint's and the Azure ones.
C20_Witness ==
    \E p \in Procs :
        /\ ConfigReturned(p)
        /\ Len(appConfig.custom) = 2 /\ Len(Endpoints) = 1
        /\ DOMAIN proc[p].custom.value.models
              = {"ollama", azureOpenAI, azureAssistants}


\* C18: after any sequence of updateParam calls, several of them before the
\* hook renders again included, the saved values hold the most recent value of
\* every updated name and the earlier value of every other name.
C18_UpdateParamKeepsOthers ==
    onlyUpdateParam => stored = expected


\* loadConfigModels has returned to caller p in its current call, by any of
\* its returns.
ConfigResultOf(p) == proc[p].nConfig = 1 /\ proc[p].custom.present

\* The detailed fetches of caller q returned, key by key, an object whose
\* models field is what the plain fetches of caller p returned.
SameFetchedLists(p, q) ==
    /\ Len(proc[p].lc.promises) = Len(proc[q].lc.promises)
    /\ \A k \in 1..Len(proc[p].lc.promises) :
          /\ proc[q].lc.promises[k].data.kind = "object"
          /\ proc[q].lc.promises[k].data.models = proc[p].lc.promises[k].data.models

\* C21: over one configuration, when every detailed fetch returned as its
\* models field the list the plain fetch of the same key returned, the models
\* of the detailed result of loadConfigModels are the plain result, endpoint
\* by endpoint.
C21_DetailedModelsEqualPlain ==
    \A p, q \in Procs :
        (/\ ConfigResultOf(p) /\ ~proc[p].includeDetails
         /\ ConfigResultOf(q) /\ proc[q].includeDetails
         /\ SameFetchedLists(p, q)) =>
            /\ DOMAIN proc[q].custom.value.models = DOMAIN proc[p].custom.value.models
            /\ \A name \in DOMAIN proc[p].custom.value.models :
                  proc[q].custom.value.models[name] = proc[p].custom.value.models[name]

\* Two groups, the first fetched with the same two models in both modes, the
\* second empty in both and back on the endpoint's lack of a default list.
C21_Witness ==
    \E p, q \in Procs :
        /\ ConfigResultOf(p) /\ ~proc[p].includeDetails
        /\ ConfigResultOf(q) /\ proc[q].includeDetails
        /\ SameFetchedLists(p, q)
        /\ Len(proc[p].lc.promises) = 2
        /\ NonEmptyFetch(proc[p].lc.promises[1].data)
        /\ ~NonEmptyFetch(proc[p].lc.promises[2].data)
        /\ proc[q].custom.value.modelDetails # EmptyMap
        /\ proc[q].custom.value.models = proc[p].custom.value.models
        /\ proc[p].custom.value.models["B"] = <<Str("m1"), Str("m2")>>

====
